---- MODULE Spec2Model ----
(***************************************************************************)
(* A model of pysrt's SubRipFile (src/pysrt/srtfile.py): the streaming     *)
(* parser, the serializer, the end-of-line property, time slicing, index   *)
(* cleaning, and opening/saving files with BOM handling.                   *)
(*                                                                         *)
(* Text is modelled as a sequence of one-character strings, so that        *)
(* splitting, stripping, replacing and rendering are computed, not         *)
(* assumed.  SubRipItem and SubRipTime live outside srtfile.py; the few    *)
(* operations of theirs that srtfile.py calls are modelled from the        *)
(* written specification and are marked as such where they are defined.    *)
(***************************************************************************)
EXTENDS Integers, Sequences, FiniteSets, TLC

VARIABLES
    \* ---- the load / serialize pipeline (from_string, open, read, stream,
    \*      write_into, save)
    pc,             \* position of the running operation
    text,           \* the text handed to from_string / the decoded file content
    source_file,    \* the iterable of lines given to read()
    error_handling, \* the error policy argument
    index,          \* enumerate() counter of stream's for loop
    string_buffer,  \* stream's buffer of non-blank lines
    data,           \* self.data of the file being loaded or written
    _eol,           \* self._eol
    linesep,        \* os.linesep of the platform
    raised,         \* args of the exception that left the operation, <<>> if none
    stderr,         \* what _handle_error wrote to sys.stderr
    eol_arg,        \* the eol argument of write_into / save
    output_file,    \* output sink: one entry per item written
    \* ---- open / save
    claimed_encoding, \* encoding argument of open
    detected,       \* what charade.detect reports for the file
    encoding,       \* encoding resolved by _open_unicode_file
    position,       \* read position of the decoded source stream
    handles,        \* state of each OS file handle the operation touched
    \* ---- the end-of-line property
    eol_first,      \* the first value the stored eol held on this object
    \* ---- slicing, shifting, index cleaning
    heap,           \* SubRipItem objects by identity
    lists,          \* list objects by identity: sequences of item ids
    files,          \* SubRipFile objects: data (a list id), eol, path, encoding
    call            \* the last operation applied, with its arguments

pipeVars == <<pc, text, source_file, error_handling, index, string_buffer,
              data, _eol, linesep, raised, stderr, eol_arg, output_file>>
openVars == <<claimed_encoding, detected, encoding, position, handles>>
eolVars  == <<eol_first>>
editVars == <<heap, lists, files, call>>
vars == <<pipeVars, openVars, eolVars, editVars>>

\* Python's None where a string may stand; text is a sequence of characters
None == <<"None">>

(***************************************************************************)
(* Characters and strings                                                  *)
(***************************************************************************)
LF == "\n"
CR == "\r"
SP == " "
BOM == "BOM"      \* U+FEFF, the decoded byte-order mark

CRLF == <<CR, LF>>
Whitespace == {SP, LF, CR, "\t"}

Range(s) == {s[i] : i \in 1..Len(s)}

StartsWith(s, p) == Len(p) <= Len(s) /\ SubSeq(s, 1, Len(p)) = p

EndsWith(s, p) == Len(p) <= Len(s) /\ SubSeq(s, Len(s) - Len(p) + 1, Len(s)) = p

\* ''.join(seqOfStrings)
RECURSIVE Flatten(_)
Flatten(ss) == IF ss = <<>> THEN <<>> ELSE Head(ss) \o Flatten(Tail(ss))

\* sep.join(seqOfStrings)
RECURSIVE Join(_, _)
Join(ss, sep) ==
    IF ss = <<>> THEN <<>>
    ELSE IF Len(ss) = 1 THEN ss[1]
    ELSE ss[1] \o sep \o Join(Tail(ss), sep)

\* s.replace(old, new) for a one-character old
RECURSIVE Replace(_, _, _)
Replace(s, old, new) ==
    IF s = <<>> THEN <<>>
    ELSE (IF Head(s) = old THEN new ELSE <<Head(s)>>) \o Replace(Tail(s), old, new)

\* s.rstrip()
RECURSIVE RStrip(_)
RStrip(s) ==
    IF s # <<>> /\ s[Len(s)] \in Whitespace THEN RStrip(SubSeq(s, 1, Len(s) - 1))
    ELSE s

\* s.lstrip()
RECURSIVE LStrip(_)
LStrip(s) == IF s # <<>> /\ Head(s) \in Whitespace THEN LStrip(Tail(s)) ELSE s

\* s.strip()
Strip(s) == LStrip(RStrip(s))

\* s.splitlines(True): split after "\r\n", "\r" or "\n", keeping the terminators.
\* LineEnds is the set of positions where a line ends.
LineEnds(s) ==
    {i \in 1..Len(s) :
        \/ s[i] = LF
        \/ s[i] = CR /\ ~(i < Len(s) /\ s[i + 1] = LF)
        \/ i = Len(s)}

SplitLines(s) ==
    LET ends == LineEnds(s)
        nth(k) == CHOOSE e \in ends : Cardinality({x \in ends : x <= e}) = k
    IN  [k \in 1..Cardinality(ends) |->
            SubSeq(s, (IF k = 1 THEN 0 ELSE nth(k - 1)) + 1, nth(k))]

(***************************************************************************)
(* Numbers as text                                                         *)
(***************************************************************************)
DigitChars == <<"0", "1", "2", "3", "4", "5", "6", "7", "8", "9">>

IsDigit(c) == c \in Range(DigitChars)

DigitVal(c) == (CHOOSE i \in 1..Len(DigitChars) : DigitChars[i] = c) - 1

AllDigits(s) == s # <<>> /\ \A i \in 1..Len(s) : IsDigit(s[i])

RECURSIVE ParseNat(_)
ParseNat(s) ==
    IF s = <<>> THEN 0
    ELSE 10 * ParseNat(SubSeq(s, 1, Len(s) - 1)) + DigitVal(s[Len(s)])

RECURSIVE NatToStr(_)
NatToStr(n) ==
    IF n < 10 THEN <<DigitChars[n + 1]>>
    ELSE Append(NatToStr(n \div 10), DigitChars[(n % 10) + 1])

RECURSIVE ZeroPad(_, _)
ZeroPad(s, width) == IF Len(s) >= width THEN s ELSE ZeroPad(<<"0">> \o s, width)

(***************************************************************************)
(* SubRipTime and SubRipItem, as far as srtfile.py uses them.  Their code  *)
(* is not in srtfile.py; these definitions follow the written              *)
(* specification (sections 3, 4.1 and 4.3).                                *)
(***************************************************************************)
FirstIndexOf(s, c) ==
    IF c \in Range(s)
    THEN CHOOSE i \in 1..Len(s) : s[i] = c /\ \A j \in 1..(i - 1) : s[j] # c
    ELSE 0

\* HH:MM:SS,mmm : hours 1+ digits, minutes and seconds 2 digits, 3 digits of ms
IsTimeText(t) ==
    LET p == FirstIndexOf(t, ":") IN
    /\ p >= 2
    /\ Len(t) = p + 9
    /\ AllDigits(SubSeq(t, 1, p - 1))
    /\ AllDigits(SubSeq(t, p + 1, p + 2))
    /\ t[p + 3] = ":"
    /\ AllDigits(SubSeq(t, p + 4, p + 5))
    /\ t[p + 6] = ","
    /\ AllDigits(SubSeq(t, p + 7, p + 9))

\* SubRipTime.from_string: the offset in milliseconds
TimeParse(t) ==
    LET p == FirstIndexOf(t, ":") IN
    ((ParseNat(SubSeq(t, 1, p - 1)) * 60 + ParseNat(SubSeq(t, p + 1, p + 2))) * 60
        + ParseNat(SubSeq(t, p + 4, p + 5))) * 1000
        + ParseNat(SubSeq(t, p + 7, p + 9))

\* unicode(SubRipTime): the canonical text
TimeStr(ms) ==
    ZeroPad(NatToStr(ms \div 3600000), 2) \o <<":">>
        \o ZeroPad(NatToStr((ms \div 60000) % 60), 2) \o <<":">>
        \o ZeroPad(NatToStr((ms \div 1000) % 60), 2) \o <<",">>
        \o ZeroPad(NatToStr(ms % 1000), 3)

Arrow == <<"-", "-", ">">>

\* The interval line "start --> end", trailing tokens ignored:
\* [ok |-> BOOLEAN, start |-> text, end |-> text]
SplitTimestamps(line) ==
    LET p  == FirstIndexOf(line, ":")
        n1 == p + 9
        r1 == LStrip(SubSeq(line, n1 + 1, Len(line)))
        r2 == LStrip(SubSeq(r1, Len(Arrow) + 1, Len(r1)))
        q  == FirstIndexOf(r2, ":")
        n2 == q + 9
    IN  IF /\ p >= 2
           /\ Len(line) >= n1
           /\ IsTimeText(SubSeq(line, 1, n1))
           /\ StartsWith(r1, Arrow)
           /\ q >= 2
           /\ Len(r2) >= n2
           /\ IsTimeText(SubSeq(r2, 1, n2))
           /\ (Len(r2) = n2 \/ r2[n2 + 1] \in Whitespace)
        THEN [ok |-> TRUE, start |-> SubSeq(line, 1, n1), end |-> SubSeq(r2, 1, n2)]
        ELSE [ok |-> FALSE, start |-> <<>>, end |-> <<>>]

RStripAll(lines) == [i \in 1..Len(lines) |-> RStrip(lines[i])]

\* Whether SubRipItem.from_lines accepts the block (otherwise it raises an Error)
FromLinesOK(lines) ==
    /\ Len(lines) >= 3
    /\ AllDigits(RStrip(lines[1]))
    /\ SplitTimestamps(RStrip(lines[2])).ok

\* SubRipItem.from_lines(lines) for an accepted block
FromLines(lines) ==
    LET l == RStripAll(lines)
        t == SplitTimestamps(l[2])
    IN  [index |-> ParseNat(l[1]),
         start |-> TimeParse(t.start),
         end   |-> TimeParse(t.end),
         text  |-> Join(SubSeq(l, 3, Len(l)), <<LF>>)]

\* unicode(item): index, interval and text, each followed by "\n"
ItemStr(item) ==
    NatToStr(item.index) \o <<LF>>
        \o TimeStr(item.start) \o <<SP>> \o Arrow \o <<SP>> \o TimeStr(item.end) \o <<LF>>
        \o item.text \o <<LF>>

(***************************************************************************)
(* The end-of-line property and its guess from a source                    *)
(***************************************************************************)
\* Python truth value of a stored eol: None and the empty string are false
Truthy(v) == v # None /\ v # <<>>

\* _get_eol: self._eol or os.linesep
GetEol(stored) == IF Truthy(stored) THEN stored ELSE linesep

\* Mutant of SetEol: a plain assignment
SetEolOverwrite(stored, eol) == eol

\* _set_eol: self._eol = self._eol or eol
SetEol(stored, eol) == IF Truthy(stored) THEN stored ELSE eol

\* _get_first_line: the first line of the iterable, '' when it has none
GetFirstLine(string_iterable) ==
    IF string_iterable = <<>> THEN <<>> ELSE string_iterable[1]

\* _guess_eol: '\r\n', '\r', '\n' tried in that order, else os.linesep
GuessEol(string_iterable) ==
    LET first_line == GetFirstLine(string_iterable) IN
    IF EndsWith(first_line, CRLF) THEN CRLF
    ELSE IF EndsWith(first_line, <<CR>>) THEN <<CR>>
    ELSE IF EndsWith(first_line, <<LF>>) THEN <<LF>>
    ELSE linesep

(***************************************************************************)
(* stream: the generator that groups lines into blocks                     *)
(***************************************************************************)
ERROR_PASS == 0
ERROR_LOG == 1
ERROR_RAISE == 2
\* error_handling=None, the default of from_string
ERROR_NONE == -1

\* Mutant of Chained: no sentinel, so a final block is flushed only by a blank line
ChainedNoSentinel == source_file

\* chain(source_file, u'\n'): the lines followed by the flushing sentinel
Chained == source_file \o << <<LF>> >>

\* all(source)
AllTrue(source) == \A i \in 1..Len(source) : source[i] # <<>>

\* The loop of stream has a line left to take
StreamRunning == pc = "stream" /\ index < Len(Chained)

CurrentLine == Chained[index + 1]

\* line 230-231: a non-blank line is buffered
StreamAppend ==
    /\ StreamRunning
    /\ Strip(CurrentLine) # <<>>
    /\ string_buffer' = Append(string_buffer, CurrentLine)
    /\ index' = index + 1
    /\ UNCHANGED <<pc, text, source_file, error_handling, data, _eol, linesep,
                   raised, stderr, eol_arg, output_file>>
    /\ UNCHANGED <<openVars, eolVars, editVars>>

\* line 232-235: a blank line with nothing (valid) buffered
StreamSkip ==
    /\ StreamRunning
    /\ Strip(CurrentLine) = <<>>
    /\ ~(string_buffer # <<>> /\ AllTrue(string_buffer))
    /\ string_buffer' = <<>>
    /\ index' = index + 1
    /\ UNCHANGED <<pc, text, source_file, error_handling, data, _eol, linesep,
                   raised, stderr, eol_arg, output_file>>
    /\ UNCHANGED <<openVars, eolVars, editVars>>

\* line 236-237: a blank line ends a block that parses; the item is yielded
\* and list.extend appends it
StreamYield ==
    /\ StreamRunning
    /\ Strip(CurrentLine) = <<>>
    /\ string_buffer # <<>> /\ AllTrue(string_buffer)
    /\ FromLinesOK(string_buffer)
    /\ data' = Append(data, FromLines(string_buffer))
    /\ string_buffer' = <<>>
    /\ index' = index + 1
    /\ UNCHANGED <<pc, text, source_file, error_handling, _eol, linesep,
                   raised, stderr, eol_arg, output_file>>
    /\ UNCHANGED <<openVars, eolVars, editVars>>

\* Mutant of RaiseArgs: the position is counted from 1
RaiseArgsOneBased(idx, error) == <<idx + 1>> \o error

\* line 331: error.args = (index, ) + error.args
RaiseArgs(idx, error) == <<idx>> \o error

\* _handle_error(error, error_handling, index): raise with the index put in
\* front of the args, or log "PySRT-<name>(line <index>)" and args[0], or pass
HandleError(error, handling, idx) ==
    IF handling = ERROR_RAISE
    THEN /\ raised' = RaiseArgs(idx, error)
         /\ pc' = "raised"
         /\ string_buffer' = <<>>
         /\ UNCHANGED <<stderr, index>>
    ELSE /\ stderr' = IF handling = ERROR_LOG
                      THEN Append(stderr, [line |-> idx, message |-> error[1]])
                      ELSE stderr
         /\ string_buffer' = <<>>
         /\ index' = index + 1
         /\ UNCHANGED <<raised, pc>>

\* line 238-240: a blank line ends a block that from_lines rejects; the block
\* text is added to the error's args and _handle_error decides
StreamError ==
    /\ StreamRunning
    /\ Strip(CurrentLine) = <<>>
    /\ string_buffer # <<>> /\ AllTrue(string_buffer)
    /\ ~FromLinesOK(string_buffer)
    /\ HandleError(<<Flatten(string_buffer)>>, error_handling, index)
    /\ UNCHANGED <<text, source_file, error_handling, data, _eol, linesep,
                   eol_arg, output_file>>
    /\ UNCHANGED <<openVars, eolVars, editVars>>

\* The loop is exhausted: extend() and read() return
StreamStop ==
    /\ pc = "stream"
    /\ index = Len(Chained)
    /\ pc' = "loaded"
    /\ UNCHANGED <<text, source_file, error_handling, index, string_buffer, data,
                   _eol, linesep, raised, stderr, eol_arg, output_file>>
    /\ UNCHANGED <<openVars, eolVars, editVars>>

StreamStep == StreamAppend \/ StreamSkip \/ StreamYield \/ StreamError \/ StreamStop

(***************************************************************************)
(* from_string and read                                                    *)
(***************************************************************************)
\* from_string(source, error_handling=...): a fresh file, source.splitlines(True)
\* handed to read(), which sets the eol from the first line and starts stream
FromString ==
    /\ pc = "from_string"
    /\ source_file' = SplitLines(text)
    /\ _eol' = SetEol(_eol, GuessEol(SplitLines(text)))
    /\ data' = <<>>
    /\ index' = 0
    /\ string_buffer' = <<>>
    /\ pc' = "stream"
    /\ UNCHANGED <<text, error_handling, linesep, raised, stderr, eol_arg, output_file>>
    /\ UNCHANGED <<openVars, eolVars, editVars>>

(***************************************************************************)
(* write_into                                                              *)
(***************************************************************************)
\* Mutant of StringRepr: the line breaks of the rendered block are left as "\n"
StringReprNoReplace(item, output_eol) == ItemStr(item)

\* line 269-271: the rendered block with "\n" replaced by the output eol
StringRepr(item, output_eol) ==
    IF output_eol # <<LF>>
    THEN Replace(ItemStr(item), LF, output_eol)
    ELSE ItemStr(item)

\* Mutant of ItemOutput: the trailing eol is written whatever the block ends with
ItemOutputAlways(item, output_eol) == StringRepr(item, output_eol) \o output_eol

\* What one pass of write_into's loop writes for an item: the rendered block
\* with "\n" replaced by the eol, and one more eol unless it ends with two
ItemOutput(item, output_eol) ==
    LET string_repr == StringRepr(item, output_eol) IN
    IF ~EndsWith(string_repr, output_eol \o output_eol)
    THEN string_repr \o output_eol
    ELSE string_repr

\* write_into(output_file, eol): output_eol = eol or self.eol, every item written
OutputEol(eol) == IF Truthy(eol) THEN eol ELSE GetEol(_eol)

WriteItems(items, eol) ==
    LET output_eol == OutputEol(eol) IN
    [i \in 1..Len(items) |-> ItemOutput(items[i], output_eol)]

WriteInto ==
    /\ pc = "loaded"
    /\ output_file' = output_file \o WriteItems(data, eol_arg)
    /\ pc' = "written"
    /\ UNCHANGED <<text, source_file, error_handling, index, string_buffer, data,
                   _eol, linesep, raised, stderr, eol_arg>>
    /\ UNCHANGED <<openVars, eolVars, editVars>>

(***************************************************************************)
(* Inputs of the load / serialize specification                            *)
(***************************************************************************)
MaxChunks == 4

Time1 == <<"0", "0", ":", "0", "0", ":", "0", "1", ",", "0", "0", "0">>
Time2 == <<"0", "0", ":", "0", "0", ":", "0", "2", ",", "5", "0", "0">>
TimeShort == <<"0", ":", "0", "0", ":", "0", "1", ",", "0", "0", "0">>

\* A block in the form the serializer writes
GoodBlock == << <<"1">>, Time1 \o <<SP>> \o Arrow \o <<SP>> \o Time2, <<"a">> >>
\* A block the parser accepts but the serializer writes differently: padded
\* index, one-digit hours, a trailing token, trailing space in the text
LooseBlock == << <<"0", "2">>,
                 TimeShort \o <<SP>> \o Arrow \o <<SP>> \o Time2 \o <<SP, "X">>,
                 <<"b", SP>> >>
\* A block the parser rejects
BadBlock == << <<"x">> >>
EmptyLine == << <<>> >>
SpaceLine == << <<SP>> >>

Chunks == {GoodBlock, LooseBlock, BadBlock, EmptyLine, SpaceLine}

Eols == {<<LF>>, CRLF, <<CR>>}

ChunkSeqs == UNION {[1..n -> Chunks] : n \in 0..MaxChunks}

\* The lines of the chunks, each ended by terminator e
LinesOf(cs, e) == LET ls == Flatten(cs) IN [i \in 1..Len(ls) |-> ls[i] \o e]

TextOf(cs, e) == Flatten(LinesOf(cs, e))

ErrorHandlings == {ERROR_NONE, ERROR_PASS, ERROR_LOG, ERROR_RAISE}

NoHandles == [h \in {"detect", "source", "save"} |-> "none"]

OpenIdle ==
    /\ claimed_encoding = None
    /\ detected = None
    /\ encoding = None
    /\ position = 0
    /\ handles = NoHandles

EolIdle == eol_first = None

EditIdle ==
    /\ heap = <<>>
    /\ lists = <<>>
    /\ files = <<>>
    /\ call = [op |-> "none"]

Init ==
    /\ pc = "from_string"
    /\ \E cs \in ChunkSeqs, e \in Eols :
          /\ text = TextOf(cs, e)
          /\ eol_arg = e
    /\ error_handling \in ErrorHandlings
    /\ source_file = <<>>
    /\ index = 0
    /\ string_buffer = <<>>
    /\ data = <<>>
    /\ _eol = None
    /\ linesep = <<LF>>
    /\ raised = <<>>
    /\ stderr = <<>>
    /\ output_file = <<>>
    /\ OpenIdle /\ EolIdle /\ EditIdle

Next == FromString \/ StreamStep \/ WriteInto

Spec == Init /\ [][Next]_vars

(***************************************************************************)
(* Blocks of an input, stated without the loop: a block is a maximal run   *)
(* of non-blank lines                                                      *)
(***************************************************************************)
IsBlank(line) == \A i \in 1..Len(line) : line[i] \in Whitespace

\* <<a, b>>: lines a..b are non-blank, line a-1 and line b+1 are blank or absent
Runs(lines) ==
    LET n == Len(lines) IN
    {r \in (1..n) \X (1..n) :
        /\ r[1] <= r[2]
        /\ \A k \in r[1]..r[2] : ~IsBlank(lines[k])
        /\ (r[1] = 1 \/ IsBlank(lines[r[1] - 1]))
        /\ (r[2] = n \/ IsBlank(lines[r[2] + 1]))}

BlockOf(lines, r) == SubSeq(lines, r[1], r[2])

GoodRuns(lines) == {r \in Runs(lines) : FromLinesOK(BlockOf(lines, r))}

BadRuns(lines) == Runs(lines) \ GoodRuns(lines)

\* The k-th run of a set of runs, in input order
NthRun(rs, k) == CHOOSE r \in rs : Cardinality({x \in rs : x[1] <= r[1]}) = k

\* The records of the well-formed blocks, in input order
ExpectedItems(lines) ==
    LET good == GoodRuns(lines) IN
    [k \in 1..Cardinality(good) |-> FromLines(BlockOf(lines, NthRun(good, k)))]

\* C2: under the pass policy stream yields exactly one record per well-formed
\* block, in input order, nothing for a malformed block, goes on after a
\* malformed block, and flushes a final block that no blank line follows.
C2_StreamPass ==
    (pc = "loaded" /\ error_handling = ERROR_PASS)
        => data = ExpectedItems(source_file)

\* A load under pass where a malformed block precedes a well-formed one that
\* ends the input with no blank line after it
C2_Witness ==
    /\ pc = "loaded"
    /\ error_handling = ERROR_PASS
    /\ data # <<>>
    /\ \E b \in BadRuns(source_file), g \in GoodRuns(source_file) :
          b[2] < g[1] /\ g[2] = Len(source_file)

\* The first malformed block of the input
FirstBadRun(lines) == NthRun(BadRuns(lines), 1)

Content(line, e) == SubSeq(line, 1, Len(line) - Len(e))

\* Every block of the input is one the parser accepts, and there are several
WellFormedInput(lines) ==
    /\ Cardinality(Runs(lines)) >= 2
    /\ BadRuns(lines) = {}

\* C1 as claimed: a well-formed multi-block text whose lines all end with E,
\* loaded and written back with eol E, is reproduced character for character.
C1_RoundTrip ==
    (pc = "written" /\ WellFormedInput(source_file))
        => Flatten(output_file) = text

\* Time text as the serializer writes it: at least two hour digits with no
\* padding beyond two, minutes and seconds below 60
CanonicalTime(t) ==
    LET p == FirstIndexOf(t, ":") IN
    /\ IsTimeText(t)
    /\ p >= 3
    /\ (p = 3 \/ t[1] # "0")
    /\ ParseNat(SubSeq(t, p + 1, p + 2)) < 60
    /\ ParseNat(SubSeq(t, p + 4, p + 5)) < 60

\* A block as the serializer writes it: a decimal index without padding, the
\* interval line "start --> end" and nothing else, one or more text lines
\* without trailing whitespace
CanonicalBlock(contents) ==
    LET idx == contents[1]
        iv  == contents[2]
        p   == FirstIndexOf(iv, SP)
    IN  /\ Len(contents) >= 3
        /\ AllDigits(idx) /\ (Len(idx) = 1 \/ idx[1] # "0")
        /\ p > 1
        /\ CanonicalTime(SubSeq(iv, 1, p - 1))
        /\ Len(iv) >= p + Len(Arrow) + 1
        /\ SubSeq(iv, p + 1, p + Len(Arrow) + 1) = Arrow \o <<SP>>
        /\ CanonicalTime(SubSeq(iv, p + Len(Arrow) + 2, Len(iv)))
        /\ \A k \in 3..Len(contents) :
              /\ contents[k][Len(contents[k])] \notin Whitespace
              /\ \A i \in 1..Len(contents[k]) : contents[k][i] \notin {CR, LF}

\* Canonical blocks, each one (the last too) followed by exactly one empty
\* line, and no other blank line
CanonicalInput(lines, e) ==
    /\ \A k \in 1..Len(lines) : EndsWith(lines[k], e)
    /\ \A k \in 1..Len(lines) :
          IsBlank(lines[k]) => lines[k] = e /\ k > 1 /\ ~IsBlank(lines[k - 1])
    /\ \A r \in Runs(lines) :
          /\ r[2] < Len(lines)
          /\ CanonicalBlock([k \in 1..(r[2] - r[1] + 1) |->
                                Content(lines[r[1] + k - 1], e)])

\* C1 amended: the round trip reproduces the text when every block is in the
\* serializer's canonical form and is followed by exactly one empty line.
C1_RoundTripCanonical ==
    (pc = "written" /\ CanonicalInput(source_file, eol_arg))
        => Flatten(output_file) = text

\* A canonical text of two blocks, loaded and written back
C1_Witness ==
    /\ pc = "written"
    /\ CanonicalInput(source_file, eol_arg)
    /\ Len(data) >= 2

(***************************************************************************)
(* write_into on records built directly: their text may hold and end with  *)
(* any line breaks                                                         *)
(***************************************************************************)
MaxItems == 1
MaxTextLen == 3

TextChars == {"a", LF, CR}

Texts == UNION {[1..n -> TextChars] : n \in 0..MaxTextLen}

DirectItems == {[index |-> 1, start |-> 1000, end |-> 2500, text |-> t] : t \in Texts}

InitWrite ==
    /\ pc = "loaded"
    /\ data \in UNION {[1..n -> DirectItems] : n \in 0..MaxItems}
    /\ _eol \in {None, <<CR>>}
    /\ eol_arg \in {None} \cup Eols
    /\ linesep \in {<<LF>>, CRLF}
    /\ text = <<>>
    /\ source_file = <<>>
    /\ error_handling = ERROR_PASS
    /\ index = 0
    /\ string_buffer = <<>>
    /\ raised = <<>>
    /\ stderr = <<>>
    /\ output_file = <<>>
    /\ OpenIdle /\ EolIdle /\ EditIdle

NextWrite == WriteInto

SpecWrite == InitWrite /\ [][NextWrite]_vars

\* The eol appended after the rendered block of item i: <<>> or the output eol
AppendedAfter(i) ==
    LET repr == StringRepr(data[i], OutputEol(eol_arg)) IN
    SubSeq(output_file[i], Len(repr) + 1, Len(output_file[i]))

WrittenAsRule(i) ==
    LET e == OutputEol(eol_arg)
        repr == StringRepr(data[i], e)
    IN  /\ StartsWith(output_file[i], repr)
        /\ AppendedAfter(i) = IF EndsWith(repr, e \o e) THEN <<>> ELSE e

\* C8 as claimed: the text written for each record ends with two consecutive
\* eol sequences and never with three, whatever the record's text ends with;
\* one eol is appended unless the rendered block already ends with two.
C8_SeparatorExactlyOne ==
    pc = "written" =>
        \A i \in 1..Len(output_file) :
            LET e == OutputEol(eol_arg) IN
            /\ EndsWith(output_file[i], e \o e)
            /\ ~EndsWith(output_file[i], e \o e \o e)
            /\ WrittenAsRule(i)

\* C8 amended: the text written for each record ends with at least two
\* consecutive eol sequences; it ends with three or more exactly when the
\* rendered block itself already does (write_into adds none then); one eol
\* is appended unless the rendered block already ends with two.
C8_SeparatorAtLeastOne ==
    pc = "written" =>
        /\ Len(output_file) = Len(data)
        /\ \A i \in 1..Len(output_file) :
              LET e == OutputEol(eol_arg)
                  repr == StringRepr(data[i], e)
              IN  /\ EndsWith(output_file[i], e \o e)
                  /\ EndsWith(output_file[i], e \o e \o e) <=> EndsWith(repr, e \o e \o e)
                  /\ WrittenAsRule(i)

\* A record whose text ends with two line breaks was written with a
\* two-character eol, and its output ends with three eol sequences
C8_Witness ==
    /\ pc = "written"
    /\ Len(output_file) = 1
    /\ OutputEol(eol_arg) = CRLF
    /\ EndsWith(data[1].text, <<LF, LF>>)
    /\ EndsWith(output_file[1], CRLF \o CRLF \o CRLF)

(***************************************************************************)
(* The life of one file object: constructed, then any sequence of eol      *)
(* assignments and read() calls                                            *)
(***************************************************************************)
MaxOps == 3

EolArgs == {None, <<>>} \cup Eols

\* Line sources handed to read(): empty, one without a terminator, a block
\* the parser accepts and one it rejects under each terminator
ReadSources ==
    {<<>>, << <<"x">> >>}
        \cup {LinesOf(<<GoodBlock, EmptyLine>>, e) : e \in Eols}
        \cup {LinesOf(<<BadBlock, EmptyLine, EmptyLine>>, e) : e \in Eols}

\* The first true value the stored eol holds
FirstValue(first, stored) ==
    IF Truthy(first) THEN first ELSE IF Truthy(stored) THEN stored ELSE None

\* __init__(items, eol, path, encoding): self._eol = eol
Construct(eol) ==
    /\ pc = "new"
    /\ _eol' = eol
    /\ eol_first' = FirstValue(eol_first, eol)
    /\ data' = <<>>
    /\ pc' = "ready"
    /\ call' = [op |-> "init", arg |-> eol, n |-> 0]
    /\ UNCHANGED <<text, source_file, error_handling, index, string_buffer,
                   linesep, raised, stderr, eol_arg, output_file>>
    /\ UNCHANGED <<openVars, heap, lists, files>>

\* file.eol = eol
AssignEol(eol) ==
    /\ pc \in {"ready", "loaded"}
    /\ call.n < MaxOps
    /\ _eol' = SetEol(_eol, eol)
    /\ eol_first' = FirstValue(eol_first, SetEol(_eol, eol))
    /\ pc' = "ready"
    /\ call' = [op |-> "eol", arg |-> eol, n |-> call.n + 1]
    /\ UNCHANGED <<text, source_file, error_handling, index, string_buffer, data,
                   linesep, raised, stderr, eol_arg, output_file>>
    /\ UNCHANGED <<openVars, heap, lists, files>>

\* read(source_file): the eol is set from the guess, then the stream is
\* consumed by extend()
Read(src) ==
    /\ pc \in {"ready", "loaded"}
    /\ call.n < MaxOps
    /\ _eol' = SetEol(_eol, GuessEol(src))
    /\ eol_first' = FirstValue(eol_first, SetEol(_eol, GuessEol(src)))
    /\ source_file' = src
    /\ index' = 0
    /\ string_buffer' = <<>>
    /\ pc' = "stream"
    /\ call' = [op |-> "read", arg |-> GuessEol(src), n |-> call.n + 1]
    /\ UNCHANGED <<text, error_handling, data, linesep, raised, stderr, eol_arg,
                   output_file>>
    /\ UNCHANGED <<openVars, heap, lists, files>>

InitEol ==
    /\ pc = "new"
    /\ linesep \in {<<LF>>, CRLF}
    /\ _eol = None
    /\ eol_first = None
    /\ call = [op |-> "none"]
    /\ text = <<>>
    /\ source_file = <<>>
    /\ error_handling = ERROR_PASS
    /\ index = 0
    /\ string_buffer = <<>>
    /\ data = <<>>
    /\ raised = <<>>
    /\ stderr = <<>>
    /\ eol_arg = None
    /\ output_file = <<>>
    /\ OpenIdle
    /\ heap = <<>> /\ lists = <<>> /\ files = <<>>

NextEol ==
    \/ \E eol \in EolArgs : Construct(eol)
    \/ \E eol \in EolArgs : AssignEol(eol)
    \/ \E src \in ReadSources : Read(src)
    \/ StreamStep

SpecEol == InitEol /\ [][NextEol]_vars

\* C6: the stored eol is set-once: once it holds a value, no assignment and
\* no read changes it, and the eol the object reports stays that first value.
C6_EolSetOnce ==
    Truthy(eol_first) => (_eol = eol_first /\ GetEol(_eol) = eol_first)

\* An assignment or a read offered another eol to an object whose eol was set
C6_Witness ==
    /\ Truthy(eol_first)
    /\ call.op \in {"eol", "read"}
    /\ call.n >= 2
    /\ Truthy(call.arg)
    /\ call.arg # eol_first

(***************************************************************************)
(* open and save: encoding resolution, BOM handling, file handles          *)
(***************************************************************************)
UpperLetters == <<"A", "B", "C", "D", "E", "F", "G", "H", "I", "J", "K", "L", "M",
                  "N", "O", "P", "Q", "R", "S", "T", "U", "V", "W", "X", "Y", "Z">>
LowerLetters == <<"a", "b", "c", "d", "e", "f", "g", "h", "i", "j", "k", "l", "m",
                  "n", "o", "p", "q", "r", "s", "t", "u", "v", "w", "x", "y", "z">>

\* s.lower()
Lower(s) ==
    [i \in 1..Len(s) |->
        IF s[i] \in Range(UpperLetters)
        THEN LowerLetters[CHOOSE k \in 1..Len(UpperLetters) : UpperLetters[k] = s[i]]
        ELSE s[i]]

Utf8 == <<"u", "t", "f", "_", "8">>
Utf16le == <<"u", "t", "f", "_", "1", "6", "_", "l", "e">>
Utf16be == <<"u", "t", "f", "_", "1", "6", "_", "b", "e">>
Utf32le == <<"u", "t", "f", "_", "3", "2", "_", "l", "e">>
Utf32be == <<"u", "t", "f", "_", "3", "2", "_", "b", "e">>
Ascii == <<"a", "s", "c", "i", "i">>

\* BOMS / CODECS_BOMS: the codecs whose decoded BOM is looked for, by the key
\* they are stored under; each decoded BOM is the one character U+FEFF
BomCodecs == {Utf32be, Utf32le, Utf16le, Utf16be, Utf8}

CodecsBoms(name) == IF name \in BomCodecs THEN <<BOM>> ELSE None

\* CHARADE_ENCODINGS_TRANSLATION
CharadeTranslation ==
    {<<<<"U", "T", "F", "-", "3", "2", "L", "E">>, Utf32le>>,
     <<<<"U", "T", "F", "-", "3", "2", "B", "E">>, Utf32be>>,
     <<<<"U", "T", "F", "-", "1", "6", "L", "E">>, Utf16le>>,
     <<<<"U", "T", "F", "-", "1", "6", "B", "E">>, Utf16be>>,
     <<<<"U", "T", "F", "-", "8">>, Utf8>>}

\* _normalize_encoding: the table, else lower case with '-' turned into '_'
NormalizeEncoding(name) ==
    IF \E t \in CharadeTranslation : t[1] = name
    THEN (CHOOSE t \in CharadeTranslation : t[1] = name)[2]
    ELSE Replace(Lower(name), "-", <<"_">>)

DEFAULT_ENCODING == Utf8

\* _detect_encoding: charade's report, normalized; the default when it has none
DetectEncoding(report) ==
    IF ~Truthy(report) THEN DEFAULT_ENCODING ELSE NormalizeEncoding(report)

\* The codec Python's registry gives for a name (codecs.open): the name in
\* lower case with '-' and ' ' as '_', then the registry's aliases
CodecAliases ==
    {<<<<"u", "t", "f", "8">>, Utf8>>, <<<<"u", "8">>, Utf8>>,
     <<<<"u", "t", "f", "_", "1", "6", "l", "e">>, Utf16le>>, <<<<"u", "t", "f", "_", "1", "6", "b", "e">>, Utf16be>>,
     <<<<"u", "t", "f", "_", "3", "2", "l", "e">>, Utf32le>>, <<<<"u", "t", "f", "_", "3", "2", "b", "e">>, Utf32be>>,
     <<<<"u", "s", "_", "a", "s", "c", "i", "i">>, Ascii>>}

CodecOf(name) ==
    LET n == Replace(Replace(Lower(name), "-", <<"_">>), SP, <<"_">>) IN
    IF \E a \in CodecAliases : a[1] = n
    THEN (CHOOSE a \in CodecAliases : a[1] = n)[2]
    ELSE n

\* Names a caller may declare for the codecs above
DeclaredNames ==
    {Utf8, <<"u", "t", "f", "-", "8">>, <<"U", "T", "F", "-", "8">>, <<"u", "t", "f", "8">>,
     Utf16le, <<"U", "T", "F", "-", "1", "6", "L", "E">>, Utf16be, <<"u", "t", "f", "-", "1", "6", "-", "b", "e">>,
     Utf32le, <<"u", "t", "f", "-", "3", "2", "-", "l", "e">>, Utf32be, <<"U", "T", "F", "-", "3", "2", "B", "E">>,
     Ascii}

\* What charade may report
DetectedNames ==
    {None, <<"U", "T", "F", "-", "8">>, <<"U", "T", "F", "-", "1", "6", "L", "E">>, <<"U", "T", "F", "-", "1", "6", "B", "E">>, <<"U", "T", "F", "-", "3", "2", "L", "E">>, <<"U", "T", "F", "-", "3", "2", "B", "E">>, Ascii}

MaxFileChunks == 2

FileChunks == {GoodBlock, BadBlock, EmptyLine}

FileTexts == {TextOf(cs, <<LF>>) : cs \in UNION {[1..n -> FileChunks] : n \in 0..MaxFileChunks}}

\* The encoding _open_unicode_file settles on: claimed_encoding or the detection
ResolvedEncoding == IF Truthy(claimed_encoding) THEN claimed_encoding
                    ELSE DetectEncoding(detected)

\* open(), line 166-167: the new file object, then _open_unicode_file: the
\* detection reads the file through a handle nothing closes, codecs.open
\* opens the source, and one decoded character is read and kept out of the
\* stream if it is the BOM stored for the encoding, else the stream is rewound
OpenSource ==
    /\ pc = "open"
    /\ encoding' = ResolvedEncoding
    /\ \E h \in {"open", "closed"} :
          handles' = [handles EXCEPT !.source = "open",
                          !.detect = IF Truthy(claimed_encoding) THEN "none" ELSE h]
    /\ LET possible_bom == CodecsBoms(ResolvedEncoding) IN
          position' = IF Truthy(possible_bom) /\ StartsWith(text, possible_bom)
                      THEN Len(possible_bom)
                      ELSE 0
    /\ _eol' = None
    /\ data' = <<>>
    /\ pc' = "read"
    /\ UNCHANGED <<text, source_file, error_handling, index, string_buffer, linesep,
                   raised, stderr, eol_arg, output_file>>
    /\ UNCHANGED <<claimed_encoding, detected, eolVars, editVars>>

\* The lines the decoded stream yields from its read position on
RemainingLines == SplitLines(SubSeq(text, position + 1, Len(text)))

\* open(), line 168: read() guesses the eol from the first line (the position
\* is restored) and consumes stream()
OpenRead ==
    /\ pc = "read"
    /\ source_file' = RemainingLines
    /\ _eol' = SetEol(_eol, GuessEol(RemainingLines))
    /\ index' = 0
    /\ string_buffer' = <<>>
    /\ pc' = "stream"
    /\ UNCHANGED <<text, error_handling, data, linesep, raised, stderr, eol_arg,
                   output_file>>
    /\ UNCHANGED <<openVars, eolVars, editVars>>

\* open(), line 169-170: reached only when read() returned
OpenClose ==
    /\ pc = "loaded"
    /\ handles' = [handles EXCEPT !.source = "closed"]
    /\ pc' = "opened"
    /\ UNCHANGED <<text, source_file, error_handling, index, string_buffer, data,
                   _eol, linesep, raised, stderr, eol_arg, output_file>>
    /\ UNCHANGED <<claimed_encoding, detected, encoding, position, eolVars, editVars>>

\* save(): codecs.open, write_into, close
SaveDone ==
    /\ pc = "opened"
    /\ output_file' = WriteItems(data, eol_arg)
    /\ handles' = [handles EXCEPT !.save = "closed"]
    /\ pc' = "saved"
    /\ UNCHANGED <<text, source_file, error_handling, index, string_buffer, data,
                   _eol, linesep, raised, stderr, eol_arg>>
    /\ UNCHANGED <<claimed_encoding, detected, encoding, position, eolVars, editVars>>

\* save(): a write() of write_into raises (the sink refuses the text, or the
\* device does) after k items; close() is not reached
SaveFails ==
    /\ pc = "opened"
    /\ \E k \in 0..(Len(data) - 1) :
          /\ output_file' = SubSeq(WriteItems(data, eol_arg), 1, k)
          /\ raised' = <<k, <<>>>>
    /\ handles' = [handles EXCEPT !.save = "open"]
    /\ pc' = "raised"
    /\ UNCHANGED <<text, source_file, error_handling, index, string_buffer, data,
                   _eol, linesep, stderr, eol_arg>>
    /\ UNCHANGED <<claimed_encoding, detected, encoding, position, eolVars, editVars>>

InitOpen ==
    /\ pc = "open"
    /\ \E body \in FileTexts, bom \in BOOLEAN :
          /\ text = (IF bom THEN <<BOM>> ELSE <<>>) \o body
          /\ \/ claimed_encoding \in DeclaredNames /\ detected = None
             \/ claimed_encoding = None /\ detected \in DetectedNames
          \* the file's bytes are valid in the codec it is read with
          /\ bom => CodecOf(ResolvedEncoding) \in BomCodecs
    /\ error_handling \in {ERROR_PASS, ERROR_LOG, ERROR_RAISE}
    /\ encoding = None
    /\ position = 0
    /\ handles = NoHandles
    /\ source_file = <<>>
    /\ index = 0
    /\ string_buffer = <<>>
    /\ data = <<>>
    /\ _eol = None
    /\ linesep = <<LF>>
    /\ raised = <<>>
    /\ stderr = <<>>
    /\ eol_arg = None
    /\ output_file = <<>>
    /\ EolIdle /\ EditIdle

NextOpen == OpenSource \/ OpenRead \/ StreamStep \/ OpenClose \/ SaveDone \/ SaveFails

SpecOpen == InitOpen /\ [][NextOpen]_vars

\* C5: every handle open() or save() opened is closed by the time the
\* operation returns or raises.
C5_HandlesClosed ==
    pc \in {"opened", "saved", "raised"} =>
        \A h \in DOMAIN handles : handles[h] # "open"

\* C7: for a BOM-carrying encoding, declared under any accepted name or
\* detected, the stream handed to the parser starts just past the BOM when
\* the file begins with it and at 0 otherwise, so the first line parsed
\* never begins with the BOM character.
C7_BomStripped ==
    (pc \notin {"open"} /\ CodecOf(encoding) \in BomCodecs) =>
        /\ position = IF StartsWith(text, <<BOM>>) THEN 1 ELSE 0
        /\ (pc # "read" /\ source_file # <<>>) => Head(source_file[1]) # BOM

(***************************************************************************)
(* slice, shift, clean_indexes and list membership.  Items and lists are   *)
(* objects with identity: heap maps item ids to items, lists maps list ids *)
(* to sequences of item ids, and a file's data is a list id.               *)
(***************************************************************************)
\* A time argument as a caller may give it: absent, a number of
\* milliseconds, or a mapping of named components
NoBound == [kind |-> "none", hours |-> 0, minutes |-> 0, seconds |-> 0, milliseconds |-> 0]

MsBound(ms) == [NoBound EXCEPT !.kind = "ms", !.milliseconds = ms]

SecondsBound(sec) == [NoBound EXCEPT !.kind = "map", !.seconds = sec]

\* Python truth value of the argument: None and the number 0 are false, a
\* mapping that has keys is true
BoundTruthy(b) ==
    CASE b.kind = "none" -> FALSE
      [] b.kind = "ms"   -> b.milliseconds # 0
      [] b.kind = "map"  -> TRUE

\* SubRipTime.coerce, in milliseconds (from the written specification, 4.1)
Coerce(b) ==
    IF b.kind = "ms" THEN b.milliseconds
    ELSE ((b.hours * 60 + b.minutes) * 60 + b.seconds) * 1000 + b.milliseconds

\* Mutant of NewList: no new list, the clone keeps the list copy() shared
NewListShared(clone) == clone.data

\* line 114: list(clone.data) is a new list object
NewList(clone) == "L2"

\* slice(): a shallow copy of the file, the four filters applied where the
\* argument is true, and the result stored in a new list
Slice(starts_before, starts_after, ends_before, ends_after) ==
    LET clone == files["f"]
        d0 == lists[clone.data]
        d1 == IF BoundTruthy(starts_before)
              THEN SelectSeq(d0, LAMBDA i : heap[i].start < Coerce(starts_before))
              ELSE d0
        d2 == IF BoundTruthy(starts_after)
              THEN SelectSeq(d1, LAMBDA i : heap[i].start > Coerce(starts_after))
              ELSE d1
        d3 == IF BoundTruthy(ends_before)
              THEN SelectSeq(d2, LAMBDA i : heap[i].end < Coerce(ends_before))
              ELSE d2
        d4 == IF BoundTruthy(ends_after)
              THEN SelectSeq(d3, LAMBDA i : heap[i].end > Coerce(ends_after))
              ELSE d3
        new == NewList(clone)
    IN  /\ call.left > 0
        /\ lists' = [l \in DOMAIN lists \cup {new} |-> IF l = new THEN d4 ELSE lists[l]]
        /\ files' = [x \in DOMAIN files \cup {"s"} |->
                        IF x = "s" THEN [clone EXCEPT !.data = new] ELSE files[x]]
        /\ call' = [op |-> "slice", file |-> "f", left |-> call.left - 1,
                    args |-> <<starts_before, starts_after, ends_before, ends_after>>,
                    before |-> <<>>]
        /\ UNCHANGED <<heap, pipeVars, openVars, eolVars>>

\* SubRipItem.shift by an offset: start and end moved, floored at 0 (from the
\* written specification, 3 and 4.4)
Max0(n) == IF n < 0 THEN 0 ELSE n

ShiftItem(item, delta) ==
    [item EXCEPT !.start = Max0(item.start + delta), !.end = Max0(item.end + delta)]

\* for item in self: item.shift(...)
RECURSIVE ShiftAll(_, _, _)
ShiftAll(h, ids, delta) ==
    IF ids = <<>> THEN h
    ELSE ShiftAll([h EXCEPT ![Head(ids)] = ShiftItem(h[Head(ids)], delta)], Tail(ids), delta)

Shift(x, delta) ==
    /\ x \in DOMAIN files
    /\ call.left > 0
    /\ heap' = ShiftAll(heap, lists[files[x].data], delta)
    /\ call' = [op |-> "shift", file |-> x, left |-> call.left - 1,
                args |-> <<delta>>, before |-> <<>>]
    /\ UNCHANGED <<lists, files, pipeVars, openVars, eolVars>>

\* item < other, as list.sort() asks: by start time (from the written
\* specification, 4.4)
ItemLess(h, a, b) == h[a].start < h[b].start

\* list.sort(): stable; an item goes after every item it is not less than
RECURSIVE InsertSorted(_, _, _)
InsertSorted(h, sorted, id) ==
    IF sorted # <<>> /\ ItemLess(h, id, sorted[Len(sorted)])
    THEN Append(InsertSorted(h, SubSeq(sorted, 1, Len(sorted) - 1), id), sorted[Len(sorted)])
    ELSE Append(sorted, id)

RECURSIVE Sort(_, _)
Sort(h, ids) ==
    IF ids = <<>> THEN <<>>
    ELSE InsertSorted(h, Sort(h, SubSeq(ids, 1, Len(ids) - 1)), ids[Len(ids)])

\* Mutant of Reindexed: the enumerate index is assigned unchanged
RECURSIVE ReindexedFromZero(_, _, _)
ReindexedFromZero(h, ids, k) ==
    IF k > Len(ids) THEN h
    ELSE ReindexedFromZero([h EXCEPT ![ids[k]].index = k - 1], ids, k + 1)

\* line 142-143: for index, item in enumerate(self): item.index = index + 1
\* (k is the 1-based position, index + 1)
RECURSIVE Reindexed(_, _, _)
Reindexed(h, ids, k) ==
    IF k > Len(ids) THEN h
    ELSE Reindexed([h EXCEPT ![ids[k]].index = k], ids, k + 1)

\* clean_indexes(): sort, then renumber
CleanIndexes(x) ==
    /\ x \in DOMAIN files
    /\ call.left > 0
    /\ LET l == files[x].data
           sorted == Sort(heap, lists[l])
       IN  /\ lists' = [lists EXCEPT ![l] = sorted]
           /\ heap' = Reindexed(heap, sorted, 1)
           /\ call' = [op |-> "clean_indexes", file |-> x, left |-> call.left - 1,
                       args |-> <<>>, before |-> lists[l]]
    /\ UNCHANGED <<files, pipeVars, openVars, eolVars>>

\* UserList.append(item)
AppendItem(x, id) ==
    /\ x \in DOMAIN files
    /\ call.left > 0
    /\ lists' = [lists EXCEPT ![files[x].data] = Append(@, id)]
    /\ call' = [op |-> "append", file |-> x, left |-> call.left - 1,
                args |-> <<id>>, before |-> <<>>]
    /\ UNCHANGED <<heap, files, pipeVars, openVars, eolVars>>

\* del file[k]
RemoveAt(x, k) ==
    /\ x \in DOMAIN files
    /\ call.left > 0
    /\ k \in 1..Len(lists[files[x].data])
    /\ lists' = [lists EXCEPT ![files[x].data] =
                    SubSeq(@, 1, k - 1) \o SubSeq(@, k + 1, Len(@))]
    /\ call' = [op |-> "remove", file |-> x, left |-> call.left - 1,
                args |-> <<k>>, before |-> <<>>]
    /\ UNCHANGED <<heap, files, pipeVars, openVars, eolVars>>

\* UserList.reverse()
Reverse(x) ==
    /\ x \in DOMAIN files
    /\ call.left > 0
    /\ lists' = [lists EXCEPT ![files[x].data] =
                    [k \in 1..Len(@) |-> @[Len(@) + 1 - k]]]
    /\ call' = [op |-> "reverse", file |-> x, left |-> call.left - 1,
                args |-> <<>>, before |-> <<>>]
    /\ UNCHANGED <<heap, files, pipeVars, openVars, eolVars>>

PipeIdle ==
    /\ pc = "edit"
    /\ text = <<>>
    /\ source_file = <<>>
    /\ error_handling = ERROR_PASS
    /\ index = 0
    /\ string_buffer = <<>>
    /\ data = <<>>
    /\ _eol = None
    /\ linesep = <<LF>>
    /\ raised = <<>>
    /\ stderr = <<>>
    /\ eol_arg = None
    /\ output_file = <<>>

(***************************************************************************)
(* One slice or one clean_indexes on a file of records drawn from a set    *)
(***************************************************************************)
MaxRecords == 3

TimeVals == {0, 1000, 2000}

Intervals == {iv \in TimeVals \X TimeVals : iv[1] <= iv[2]}

BoundArgs == {NoBound, MsBound(0), MsBound(1000), SecondsBound(0)}

SomePath == <<"a", ".", "s", "r", "t">>

InitEdit ==
    /\ \E ivs \in [1..MaxRecords -> Intervals] :
          heap = [i \in 1..MaxRecords |->
                    [index |-> 0, start |-> ivs[i][1], end |-> ivs[i][2]]]
    /\ lists = [l \in {"L1"} |-> [i \in 1..MaxRecords |-> i]]
    /\ files = [x \in {"f"} |->
                  [data |-> "L1", eol |-> CRLF, path |-> SomePath, encoding |-> Utf8]]
    /\ call = [op |-> "none", file |-> "f", left |-> 1, args |-> <<>>, before |-> <<>>]
    /\ PipeIdle /\ OpenIdle /\ EolIdle

NextEdit ==
    \/ \E sb \in BoundArgs, sa \in BoundArgs, eb \in BoundArgs, ea \in BoundArgs :
          Slice(sb, sa, eb, ea)
    \/ CleanIndexes("f")

SpecEdit == InitEdit /\ [][NextEdit]_vars

ItemsOf(x) == lists[files[x].data]

\* C4: slice returns exactly the records that satisfy every supplied bound
\* as a strict inequality, in their original order, a bound of zero time
\* (0 milliseconds or an all-zero mapping) included; an omitted bound
\* imposes nothing.
C4_SliceStrict ==
    call.op = "slice" =>
        LET b == call.args
            Supplied(a) == a.kind # "none"
            Keep(i) ==
                /\ Supplied(b[1]) => heap[i].start < Coerce(b[1])
                /\ Supplied(b[2]) => heap[i].start > Coerce(b[2])
                /\ Supplied(b[3]) => heap[i].end < Coerce(b[3])
                /\ Supplied(b[4]) => heap[i].end > Coerce(b[4])
        IN  ItemsOf("s") = SelectSeq(ItemsOf("f"), Keep)

\* C9: after clean_indexes the records are the same ones, ordered by
\* non-decreasing start time, equal start times in their former order, and
\* the record at position k has index k.
C9_CleanIndexes ==
    call.op = "clean_indexes" =>
        LET after == ItemsOf(call.file)
            n == Len(after)
        IN  /\ Len(call.before) = n
            /\ \E pi \in {f \in [1..n -> 1..n] : \A i, j \in 1..n : f[i] = f[j] => i = j} :
                  /\ \A i \in 1..n : after[pi[i]] = call.before[i]
                  /\ \A i, j \in 1..n :
                        (i < j /\ heap[call.before[i]].start = heap[call.before[j]].start)
                            => pi[i] < pi[j]
            /\ \A k \in 1..(n - 1) : heap[after[k]].start <= heap[after[k + 1]].start
            /\ \A k \in 1..n : heap[after[k]].index = k

\* A clean_indexes that moved records, two of which start at the same time
C9_Witness ==
    /\ call.op = "clean_indexes"
    /\ ItemsOf(call.file) # call.before
    /\ \E i, j \in 1..Len(call.before) :
          i < j /\ heap[call.before[i]].start = heap[call.before[j]].start

(***************************************************************************)
(* A file, its slice, and any sequence of operations on the two            *)
(***************************************************************************)
MaxShared == 2
MaxEdits == 3

Deltas == {-1000, 1000}

InitShare ==
    /\ \E starts \in [1..MaxShared -> {0, 1000}] :
          heap = [i \in 1..MaxShared |->
                    [index |-> i, start |-> starts[i], end |-> starts[i] + 1000]]
    /\ lists = [l \in {"L1"} |-> [i \in 1..MaxShared |-> i]]
    /\ \E e \in {None, CRLF} :
          files = [x \in {"f"} |->
                     [data |-> "L1", eol |-> e, path |-> SomePath, encoding |-> Utf8]]
    /\ call = [op |-> "none", file |-> "f", left |-> MaxEdits, args |-> <<>>,
               before |-> <<>>]
    /\ PipeIdle /\ OpenIdle /\ EolIdle

NextShare ==
    \/ \E sa \in {NoBound, MsBound(0), SecondsBound(0)} : Slice(NoBound, sa, NoBound, NoBound)
    \/ \E x \in {"f", "s"}, d \in Deltas : Shift(x, d)
    \/ \E x \in {"f", "s"} : CleanIndexes(x)
    \/ \E x \in {"f", "s"}, id \in 1..MaxShared : AppendItem(x, id)
    \/ \E x \in {"f", "s"}, k \in 1..(MaxShared + MaxEdits) : RemoveAt(x, k)
    \/ \E x \in {"f", "s"} : Reverse(x)

SpecShare == InitShare /\ [][NextShare]_vars

Other(x) == IF x = "f" THEN "s" ELSE "f"

\* How many times id occurs in ids
Occurrences(ids, id) == Cardinality({k \in 1..Len(ids) : ids[k] = id})

RECURSIVE ShiftedTimes(_, _, _)
ShiftedTimes(item, delta, times) ==
    IF times = 0 THEN item
    ELSE ShiftedTimes([item EXCEPT !.start = Max0(@ + delta), !.end = Max0(@ + delta)],
                      delta, times - 1)

\* What a step that applied an operation must have done to the two files
SharingStep ==
    /\ call'.op = "slice" =>
          /\ ItemsOf("f")' = ItemsOf("f")
          /\ heap' = heap
          /\ files'["f"] = files["f"]
          /\ files'["s"].eol = files["f"].eol
          /\ files'["s"].path = files["f"].path
          /\ files'["s"].encoding = files["f"].encoding
    /\ (call'.op = "shift" /\ "s" \in DOMAIN files) =>
          \* the records of the shifted file moved, seen through either file,
          \* and no other record did; membership is untouched
          /\ \A id \in DOMAIN heap :
                heap'[id] = ShiftedTimes(heap[id], call'.args[1],
                                         Occurrences(ItemsOf(call'.file), id))
          /\ ItemsOf("f")' = ItemsOf("f")
          /\ ItemsOf("s")' = ItemsOf("s")
    /\ (call'.op \in {"append", "remove", "reverse", "clean_indexes"}
            /\ "s" \in DOMAIN files) =>
          \* adding, removing, reordering in one file leaves the other's sequence
          LET o == Other(call'.file) IN lists'[files'[o].data] = lists[files[o].data]

\* C10: a slice shares record objects with its source but not membership:
\* shifting the slice moves exactly its records, as seen through the source
\* too; adding, removing or reordering records in one leaves the other's
\* sequence unchanged; slice leaves the source unchanged and the clone
\* carries the same eol, path and encoding.
C10_SharedRecords == [][SharingStep]_vars

\* The slice holds one of the source's two records, and a shift of the slice
\* has moved that record and not the other
C10_Witness ==
    /\ call.op = "shift"
    /\ call.file = "s"
    /\ "s" \in DOMAIN files
    /\ Len(ItemsOf("s")) = 1
    /\ ItemsOf("f") = <<1, 2>>
    /\ heap[1].start # heap[2].start
    /\ heap[1].end - heap[1].start = 1000

====
